---- MODULE Spec2Model ----
(***************************************************************************)
(* A model of the spatial acceleration engine of raytracer.js: the octree  *)
(* node (octree.ts), the space model (space.ts), the space octree          *)
(* operations (octree_space.ts) and the entity index (octree_entity.ts).   *)
(*                                                                         *)
(* Coordinates are exact integers: one model unit is 1/RootSize of the     *)
(* edge of the initial root, so every halving the code performs on the     *)
(* modelled trees is exact, as it is in IEEE doubles for powers of two.    *)
(***************************************************************************)
EXTENDS Integers, Sequences, FiniteSets, TLC

(* ------------------------------ bounds --------------------------------- *)

\* largest max_in_depth a caller passes
MaxInDepth == 3
\* largest max_out_depth a caller passes
MaxOutDepth == 2
\* number of add_entity_to_octree calls in one behaviour of the entity index
MaxAdds == 4
\* number of add_entity_to_octree and new_subtree calls in one behaviour of the tree
MaxCalls == 3
MaxRefmax == 2
MaxPixels == 2

\* the widest and the highest screen of a camera
MaxScreen == 4

(* ------------------------- vectors (math/vector) ------------------------ *)

vector(x, y, z) == <<x, y, z>>

add(v1, v2) == [i \in 1..3 |-> v1[i] + v2[i]]

sub(v1, v2) == [i \in 1..3 |-> v1[i] - v2[i]]

scale(v, scalar) == [i \in 1..3 |-> v[i] * scalar]

\* x << 0 on a number: ToInt32, truncation toward zero of the quotient a/b
ToInt32Div(a, b) == IF a >= 0 THEN a \div b ELSE -((-a) \div b)

\* Math.floor of the quotient a/b, b > 0
FloorDiv(a, b) == a \div b

clamp(number, min, max) ==
  LET lo == IF number < max THEN number ELSE max
  IN  IF lo > min THEN lo ELSE min

(* ------------------------------ space.ts -------------------------------- *)

point_in_space(point, space) ==
  \A i \in 1..3 : point[i] >= space.pos[i] /\ point[i] < space.pos[i] + space.size[i]

space_in_space_open(interior, exterior) ==
  \A dim \in 1..3 :
     /\ interior.pos[dim] >= exterior.pos[dim]
     /\ interior.pos[dim] + interior.size[dim] < exterior.pos[dim] + exterior.size[dim]

space_in_space(interior, exterior) ==
  \A dim \in 1..3 :
     /\ interior.pos[dim] >= exterior.pos[dim]
     /\ interior.pos[dim] + interior.size[dim] <= exterior.pos[dim] + exterior.size[dim]

aabb_in_space_origin(aabb, space) == point_in_space(aabb.pos, space)

aabb_in_space(aabb, space) ==
  space_in_space([pos |-> aabb.pos, size |-> scale(vector(1, 1, 1), aabb.size)], space)

(* ------------------------------ octree.ts ------------------------------- *)

\* the absent child / the null reference
NoNode == 0

\* edge of the initial root in model units (the tests use the unit cube)
RootSize == 2 ^ (MaxOutDepth + 2)

\* new Octree(id, parent, value): value.defined is FALSE for `undefined`
Octree(id, parent, value) ==
  [id |-> id, parent |-> parent, value |-> value, invalidated |-> FALSE,
   nodes |-> [n \in 0..7 |-> NoNode]]

NoValue == [defined |-> FALSE, set |-> {}]

\* new EntitySet
EntitySet == [defined |-> TRUE, set |-> {}]

is_at_bounds(n) == n >= 0 /\ n <= 7

\* Octree.invalidate(recurse) on node: the nodes whose flag it sets
RECURSIVE invalidate(_, _, _)
invalidate(h, node, recurse) ==
  IF ~recurse THEN {node}
  ELSE {node} \cup UNION { invalidate(h, h[node].nodes[i], recurse) :
                              i \in {j \in 0..7 : h[node].nodes[j] # NoNode} }

\* the heap with the flag of every node of S set
RECURSIVE invalidate_all(_, _)
invalidate_all(h, S) ==
  IF S = {} THEN h
  ELSE LET k == CHOOSE j \in S : TRUE
       IN  invalidate_all([h EXCEPT ![k].invalidated = TRUE], S \ {k})

\* Octree.set(n, value, flags): the heap after the call
OctreeSetAlways(h, t, n, value, keep_old_valid, invalidate_recurse) ==
  LET old_value == h[t].nodes[n]
      inv == IF old_value # NoNode THEN invalidate(h, old_value, invalidate_recurse) ELSE {}
  IN  invalidate_all([h EXCEPT ![t].nodes[n] = value], inv)

OctreeSetFlags(h, t, n, value, keep_old_valid, invalidate_recurse) ==
  LET old_value == h[t].nodes[n]
      inv == IF ~keep_old_valid /\ old_value # NoNode
             THEN invalidate(h, old_value, invalidate_recurse) ELSE {}
  IN  IF old_value = value THEN h
      ELSE invalidate_all([h EXCEPT ![t].nodes[n] = value], inv)

\* Octree.set(n, value) with default flags: the heap after the call
OctreeSet(h, t, n, value) == OctreeSetFlags(h, t, n, value, FALSE, FALSE)

\* what Octree.set returns: the old value of the slot
OctreeSetReturns(h, t, n) == h[t].nodes[n]

RECURSIVE get_root(_, _)
get_root(h, node) ==
  IF h[node].parent = NoNode THEN node ELSE get_root(h, h[node].parent)

RECURSIVE get_level(_, _)
get_level(h, node) ==
  IF h[node].parent = NoNode THEN 0 ELSE 1 + get_level(h, h[node].parent)

get_relative_level(h, node, root) == get_level(h, node) - get_level(h, root)

(* --------------------------- octree_space.ts ---------------------------- *)

\* null result of node_at_pos
NullPos == [tree |-> NoNode, octant |-> 0]

\* (ind.z << 2) + (ind.y << 1) + (ind.x << 0)
octant_index_swapped(ind) == ind[1] * 4 + ind[2] * 2 + ind[3]

octant_index(ind) == ind[3] * 4 + ind[2] * 2 + ind[1]

\* the while loop of node_at_pos. The code halves next_dim.size at every level, below
\* one model unit when it descends from an outer root with the box of the tree it was
\* given: the loop then doubles the scale of the point and of the box, which changes
\* no index it computes, so that the halving stays exact.
RECURSIVE node_at_pos_loop(_, _, _, _)
node_at_pos_loop(h, next_node, next_dim, pos) ==
  IF next_dim.size % 2 = 1
  THEN node_at_pos_loop(h, next_node,
         [pos |-> scale(next_dim.pos, 2), size |-> next_dim.size * 2], scale(pos, 2))
  ELSE
  LET rel_pos   == sub(pos, next_dim.pos)
      ind       == [i \in 1..3 |-> ToInt32Div(2 * rel_pos[i], next_dim.size)]
      cur_index == octant_index(ind)
      child     == h[next_node].nodes[cur_index]
      half      == next_dim.size \div 2
  IN  IF child = NoNode
      THEN [tree |-> next_node, octant |-> cur_index]
      ELSE node_at_pos_loop(h, child,
             [pos |-> add(next_dim.pos, scale(ind, half)), size |-> half], pos)

node_at_pos(h, octree, pos, start_from_current) ==
  LET dim      == h[octree].id
      cur_node == IF start_from_current THEN octree ELSE get_root(h, octree)
  IN  IF ~point_in_space(pos, [pos |-> dim.pos, size |-> scale(vector(1, 1, 1), dim.size)])
      THEN NullPos
      ELSE node_at_pos_loop(h, cur_node, dim, pos)

\* the canonical sub-dimension of child n
subdim_next(dim, n) ==
  [pos  |-> add(dim.pos, scale(vector((n + 1) % 2, ((n + 1) \div 2) % 2, ((n + 1) \div 4) % 2),
                               dim.size \div 2)),
   size |-> dim.size \div 2]

subdim(dim, n) ==
  [pos  |-> add(dim.pos, scale(vector(n % 2, (n \div 2) % 2, (n \div 4) % 2), dim.size \div 2)),
   size |-> dim.size \div 2]

\* new_subtree(tree, n) without allow_replace, on an empty slot: the new heap
new_subtree(h, tree, n) ==
  LET subtree == Len(h) + 1
  IN  OctreeSet(Append(h, Octree(subdim(h[tree].id, n), NoNode, NoValue)), tree, n, subtree)

(* --------------------------- entities (scene) --------------------------- *)

\* model unit of the scene: 1/8 of the edge of the initial root
U == RootSize \div 8

\* half of it: the smallest sphere has diameter U, so centres lie on half units
HalfU == U \div 2

\* the spheres a caller inserts, centre and diameter in units of HalfU:
\*   1, 2  fit a depth-2 node          3  is exactly child 0 of the root
\*   4     straddles a midplane        5  leaves the root on the -x side
\*   6     needs one wrap, beyond 5    7  needs two wraps
\*   8     fits a depth-3 node         9  is exactly octant 1 of child 0
SpherePos ==
  << vector(2, 2, 2),  vector(2, 2, 2),   vector(4, 4, 4),   vector(8, 4, 8),
     vector(-2, 2, 2), vector(-10, 2, 2), vector(-18, 2, 2), vector(1, 1, 1),
     vector(6, 2, 2) >>

SphereDiameter == << 4, 4, 8, 4, 4, 4, 4, 2, 4 >>

Entities == 1..Len(SpherePos)

get_pos(e) == scale(SpherePos[e], HalfU)

get_diameter(e) == SphereDiameter[e] * HalfU

\* SphereEntity.get_aabb: [origin, edge]
get_aabb(e) ==
  LET diameter == get_diameter(e)
  IN  [pos  |-> sub(get_pos(e), vector(diameter \div 2, diameter \div 2, diameter \div 2)),
       size |-> diameter]

(* --------------------------- octree_entity.ts --------------------------- *)

new_entity_octree(dim, parent) == Octree(dim, parent, EntitySet)

node_space(h, node) ==
  [pos |-> h[node].id.pos, size |-> scale(vector(1, 1, 1), h[node].id.size)]

RECURSIVE covering_climb(_, _, _)
covering_climb(h, cur_tree, aabb) ==
  IF aabb_in_space(aabb, node_space(h, cur_tree)) THEN cur_tree
  ELSE IF h[cur_tree].parent = NoNode THEN NoNode
  ELSE covering_climb(h, h[cur_tree].parent, aabb)

\* NoNode stands for `undefined`
get_covering_node_for_entity(h, tree, e) ==
  LET aabb         == get_aabb(e)
      deepest_node == node_at_pos(h, tree, aabb.pos, FALSE)
  IN  IF deepest_node = NullPos THEN NoNode
      ELSE covering_climb(h, deepest_node.tree, aabb)

\* the depth the inside growth starts counting from
inside_start_depth_zero(h, root, node) == 0

inside_start_depth(h, root, node) == get_relative_level(h, node, root)

RECURSIVE extend_inside_loop(_, _, _, _, _)
extend_inside_loop(h, cur_node, cur_depth, aabb, max_depth) ==
  IF ~(cur_depth < max_depth) THEN [heap |-> h, node |-> cur_node]
  ELSE
    LET size  == h[cur_node].id.size
        xyz   == [i \in 1..3 |-> ToInt32Div(2 * (aabb.pos[i] - h[cur_node].id.pos[i]), size)]
        space == [pos  |-> add(h[cur_node].id.pos, scale(xyz, size \div 2)),
                  size |-> scale(vector(1, 1, 1), size \div 2)]
        new_tree == Len(h) + 1
        node_idx == xyz[3] * 4 + xyz[2] * 2 + xyz[1]
    IN  IF ~aabb_in_space(aabb, space) THEN [heap |-> h, node |-> cur_node]
        ELSE extend_inside_loop(
               OctreeSet(Append(h, new_entity_octree([pos |-> space.pos, size |-> size \div 2], cur_node)),
                         cur_node, node_idx, new_tree),
               new_tree, cur_depth + 1, aabb, max_depth)

extend_tree_inside_to_fit_up_to_depth(h, root, node, aabb, max_depth) ==
  extend_inside_loop(h, node, inside_start_depth(h, root, node), aabb, max_depth)

\* the slot the old root takes inside its new parent
cur_idx_within_parent_plus1(aligned) ==
  (aligned[3] + 1) * 4 + (aligned[2] + 1) * 2 + (aligned[1] + 1)

cur_idx_within_parent(aligned) ==
  (-aligned[3]) * 4 + (-aligned[2]) * 2 + (-aligned[1])

RECURSIVE extend_outside_loop(_, _, _, _, _)
extend_outside_loop(h, cur_node, cur_depth, aabb, max_depth) ==
  IF ~(cur_depth < max_depth) THEN [heap |-> h, node |-> cur_node, fit_found |-> FALSE]
  ELSE
    LET size        == h[cur_node].id.size
        aligned     == [dim \in 1..3 |->
                          clamp(FloorDiv(aabb.pos[dim] - h[cur_node].id.pos[dim], size), -1, 0)]
        parent_pos  == add(h[cur_node].id.pos, scale(aligned, size))
        parent_size == size * 2
        new_parent  == Len(h) + 1
        h1 == Append(h, new_entity_octree([pos |-> parent_pos, size |-> parent_size], NoNode))
        h2 == OctreeSet(h1, new_parent, cur_idx_within_parent(aligned), cur_node)
        h3 == [h2 EXCEPT ![cur_node].parent = new_parent]
    IN  IF aabb_in_space(aabb, [pos |-> parent_pos, size |-> scale(vector(1, 1, 1), parent_size)])
        THEN [heap |-> h3, node |-> new_parent, fit_found |-> TRUE]
        ELSE extend_outside_loop(h3, new_parent, cur_depth + 1, aabb, max_depth)

\* `node` is the absolute root (the caller passes tree.get_root())
extend_tree_outside_to_fit_up_to_depth(h, root, node, aabb, max_depth) ==
  extend_outside_loop(h, node, get_relative_level(h, root, node), aabb, max_depth)

\* Entity.set_octree(node): the entity leaves the set it was in and joins
\* the set of `node`
set_octree(h, e, node) ==
  [k \in DOMAIN h |->
     IF k = node THEN [h[k] EXCEPT !.value.set = @ \cup {e}]
     ELSE [h[k] EXCEPT !.value.set = @ \ {e}]]

\* add_entity_to_octree(tree, entity, config): the heap after the call, the
\* node returned (NoNode when the call throws) and what it threw
add_entity_to_octree(h, tree, e, config) ==
  LET aabb     == get_aabb(e)
      covering == get_covering_node_for_entity(h, tree, e)
      abs_root == get_root(h, tree)
      out == IF covering = NoNode
             THEN extend_tree_outside_to_fit_up_to_depth(h, tree, abs_root, aabb, config.max_out_depth)
             ELSE [heap |-> h, node |-> covering, fit_found |-> TRUE]
      in  == extend_tree_inside_to_fit_up_to_depth(out.heap, tree, out.node, aabb, config.max_in_depth)
  IN  IF ~out.fit_found
      THEN [heap |-> out.heap, node |-> NoNode, error |-> "TreeOutsideGrowError",
            abs_root |-> out.node, covering |-> covering, start |-> NoNode]
      ELSE IF ~in.heap[in.node].value.defined
      THEN [heap |-> in.heap, node |-> NoNode, error |-> "TypeError",
            abs_root |-> NoNode, covering |-> covering, start |-> out.node]
      ELSE [heap |-> set_octree(in.heap, e, in.node), node |-> in.node, error |-> "none",
            abs_root |-> NoNode, covering |-> covering, start |-> out.node]

(* ------------------------------ the walker ------------------------------ *)

\* an undefined octant index (cursor.node, the index of a root within its parent)
Undef == 0 - 1

\* NODE_ORDER_MAP: the lookup table from the 9-bit logic vector to the 2-bit order
\* index, as its hexadecimal digits, least significant first
NODE_ORDER_MAP ==
  <<
     0, 0, 0, 0, 0, 0, 0, 0, 1, 0, 4, 0, 0, 1, 0, 4, 2, 0, 8, 0, 0, 2, 0, 8, 12, 0, 3, 0, 0, 12, 0, 3,
     0, 0, 0, 0, 0, 0, 0, 0, 1, 1, 0, 0, 1, 1, 0, 0, 2, 2, 8, 8, 2, 2, 8, 8, 12, 12, 2, 2, 12, 12, 2, 2,
     0, 0, 0, 0, 0, 0, 0, 0, 1, 1, 4, 4, 1, 1, 4, 4, 2, 2, 0, 0, 2, 2, 0, 0, 4, 4, 3, 3, 4, 4, 3, 3,
     0, 0, 0, 0, 0, 0, 0, 0, 1, 0, 0, 0, 0, 1, 0, 0, 2, 0, 0, 0, 0, 2, 0, 0, 4, 0, 2, 0, 0, 4, 0, 2,
     12, 8, 3, 1, 8, 0, 1, 0, 2, 0, 8, 12, 0, 1, 12, 4, 2, 0, 8, 12, 0, 1, 12, 4, 12, 8, 3, 1, 8, 0, 1, 0,
     8, 8, 3, 2, 0, 0, 0, 0, 2, 2, 8, 8, 0, 1, 0, 0, 2, 2, 8, 8, 0, 0, 0, 4, 12, 8, 2, 2, 0, 0, 0, 0,
     12, 0, 1, 0, 4, 0, 1, 0, 1, 0, 8, 0, 1, 0, 4, 4, 2, 0, 4, 0, 1, 1, 4, 0, 4, 0, 3, 0, 4, 0, 1, 0,
     8, 0, 1, 0, 0, 0, 0, 0, 1, 0, 8, 0, 0, 0, 0, 0, 2, 0, 4, 0, 0, 0, 0, 0, 4, 0, 2, 0, 0, 0, 0, 0 >>

\* NODE_ORDERS: the cross order permutations selected through NODE_ORDER_MAP
NODE_ORDERS ==
  << <<3, 2, 1, 0, 4, 6, 5, 7>>,
     <<2, 0, 3, 1, 5, 4, 7, 6>>,
     <<1, 0, 3, 2, 6, 4, 7, 5>>,
     <<0, 2, 1, 3, 7, 6, 5, 4>> >>

\* Number(b) of a boolean
Number(b) == IF b THEN 1 ELSE 0

\* Array.prototype.reverse
reverse(ord) == [i \in 1..Len(ord) |-> ord[Len(ord) + 1 - i]]

\* Array.prototype.indexOf: the 0-based index of the first n in ord, -1 if none
indexOf(ord, n) ==
  IF \E i \in 1..Len(ord) : ord[i] = n
  THEN (CHOOSE i \in 1..Len(ord) : ord[i] = n /\ \A j \in 1..(i - 1) : ord[j] # n) - 1
  ELSE 0 - 1

\* order[0]: the octant the order starts with, undefined for an empty order
order_first(ord) == IF ord = << >> THEN Undef ELSE Head(ord)

\* Array.prototype.shift on the order: an empty order stays empty
order_shift(ord) == IF ord = << >> THEN ord ELSE Tail(ord)

\* Plane.line_intersection with allow_infinity, direction BOTH, for the plane through
\* mid with normal along axis plane_i, then the probe point's distance from mid along
\* axis a: returned as the two tests the walker makes on it. The distance is
\* start[a] + dir[a] * ratio - mid[a] with ratio = (mid - start)[plane_i] / dir[plane_i];
\* with dir[plane_i] = 0 the ratio is +-Infinity or NaN, and the distance is NaN
\* (every comparison false) or +-Infinity.
axis_mid_dist(start, dir, mid, half_size, a, plane_i) ==
  LET denom == dir[plane_i]
      numer == mid[plane_i] - start[plane_i]
  IN  IF denom # 0
      THEN LET scaled == (start[a] - mid[a]) * denom + dir[a] * numer
               s      == IF denom > 0 THEN scaled ELSE 0 - scaled
               m      == IF denom > 0 THEN denom ELSE 0 - denom
           IN  [ae_middle |-> s >= 0,
                of        |-> s > half_size * m \/ s < 0 - (half_size * m)]
      ELSE IF numer = 0 \/ dir[a] = 0
           THEN [ae_middle |-> FALSE, of |-> FALSE]
           ELSE [ae_middle |-> (dir[a] > 0) = (numer > 0), of |-> TRUE]

\* the two ae_middle bits and the of bit of a plane, at their places in the logic vector
plane_bits(a1, a2, plane_i) ==
  (Number(a1.ae_middle) + 2 * Number(a2.ae_middle)) * (4 ^ plane_i)
  + Number(a1.of \/ a2.of) * (2 ^ (6 + plane_i))

\* fill_logic_vec_for_planes: the bits one plane contributes to the logic vector
\* (axes and plane numbered from 0 as in the source)
fill_logic_vec_for_planes(start, dir, mid, half_size, axis1, axis2, plane_i) ==
  plane_bits(axis_mid_dist(start, dir, mid, half_size, axis1 + 1, plane_i + 1),
             axis_mid_dist(start, dir, mid, half_size, axis2 + 1, plane_i + 1),
             plane_i)

\* the logic vector of a node box for a ray
logic_vec(dim, start, dir) ==
  LET half_size == dim.size \div 2
      mid_point == add(dim.pos, vector(half_size, half_size, half_size))
  IN  fill_logic_vec_for_planes(start, dir, mid_point, half_size, 1, 2, 0)
      + fill_logic_vec_for_planes(start, dir, mid_point, half_size, 0, 2, 1)
      + fill_logic_vec_for_planes(start, dir, mid_point, half_size, 0, 1, 2)

\* (NODE_ORDER_MAP >> (logic << 1)) & 3
order_index(logic) == (NODE_ORDER_MAP[(logic \div 2) + 1] \div (4 ^ (logic % 2))) % 4

\* order_shift_n_elem: drop the first n octants of the order, nothing if n is no index
order_shift_n_elem(ord, n) ==
  IF ~is_at_bounds(n) THEN ord ELSE SubSeq(ord, n + 1, Len(ord))

\* order_shift_until: make the order start at octant n, if it holds n
order_shift_until(ord, n) == order_shift_n_elem(ord, indexOf(ord, n))

NoLogic == [defined |-> FALSE, logic |-> 0, order |-> << >>]

\* the order of a logic vector: the permutation the table selects, prepared for the
\* direction and started at the cursor's node
order_sequence(logic, cursor) ==
  LET seq  == NODE_ORDERS[order_index(logic) + 1]
      prep == IF cursor.order_prepare_fn = "reverse" THEN reverse(seq) ELSE seq
  IN  [defined |-> TRUE, logic |-> logic, order |-> order_shift_until(prep, cursor.node)]

\* setup_order: the cross logic of the cursor's tree for the cursor's ray
setup_order(h, cursor) ==
  order_sequence(logic_vec(h[cursor.tree].id, cursor.start_point.v, cursor.direction.v),
                 cursor)

\* is_crossed: whether the logic vector says the ray crosses octant n
is_crossed(n, logic) ==
  LET p_yz  == logic % 4
      p_xz  == (logic \div 4) % 4
      p_xy  == (logic \div 16) % 4
      of_yz == (logic \div 64) % 2 = 1
      of_xz == (logic \div 128) % 2 = 1
      of_xy == (logic \div 256) % 2 = 1
      s_yz  == (n \div 2) % 4
      s_xz  == 2 * ((n \div 4) % 2) + (n % 2)
      s_xy  == n % 4
  IN  \/ (p_xz = s_xz /\ (~of_xz \/ p_yz = s_yz))
      \/ (p_yz = s_yz /\ (~of_yz \/ p_xy = s_xy))
      \/ (p_xy = s_xy /\ (~of_xy \/ p_xz = s_xz))

\* index_within_parent: the octant of a node within its parent, from the geometry
index_within_parent(h, child) ==
  IF h[child].parent = NoNode THEN Undef
  ELSE LET parent == h[h[child].parent]
           ind    == [i \in 1..3 |->
                        ToInt32Div(2 * (h[child].id.pos[i] - parent.id.pos[i]), parent.id.size)]
       IN  octant_index(ind)

Undefined == [defined |-> FALSE, v |-> vector(0, 0, 0)]

Defined(v) == [defined |-> TRUE, v |-> v]

\* new OctreeWalker(tree): both setters run with undefined
new_walker(tree) ==
  [tree       |-> tree,
   info_stack |-> << >>,
   cursor     |-> [tree |-> tree, node |-> Undef, start_point |-> Undefined,
                   direction |-> Undefined, order_prepare_fn |-> "default",
                   cross_logic |-> NoLogic, was_returned |-> FALSE]]

\* the first of the two lookups of go_to_point that finds a node
first_found(from_current, from_root) ==
  IF from_current # NullPos THEN from_current ELSE from_root

\* the second half of go_to_point: logic and stack are dropped and the cursor is put
\* on the node found, or on the walker's tree when the point is outside
seat_cursor(w, pos_node) ==
  LET base == [w.cursor EXCEPT !.cross_logic = NoLogic, !.was_returned = FALSE]
  IN  [w EXCEPT !.info_stack = << >>,
                !.cursor = IF pos_node = NullPos
                           THEN [base EXCEPT !.tree = w.tree, !.node = Undef]
                           ELSE [base EXCEPT !.tree = pos_node.tree, !.node = pos_node.octant]]

\* go_to_point and the start_point setter: node_at_pos from the walker's tree, first
\* from that tree and then from its root, both against the walker's tree's box
go_to_point(h, w, point) ==
  seat_cursor(w, first_found(node_at_pos(h, w.tree, point, TRUE),
                             node_at_pos(h, w.tree, point, FALSE)))

set_start_point(h, w, point) ==
  LET w1 == go_to_point(h, w, point)
  IN  [w1 EXCEPT !.cursor.start_point = Defined(point)]

\* the direction setter
set_direction(w, dir) ==
  [w EXCEPT !.cursor.cross_logic = NoLogic,
            !.cursor.direction = Defined(dir),
            !.cursor.order_prepare_fn =
               IF dir[3] < 0 \/ dir[2] < 0 THEN "reverse" ELSE "default"]

\* the test of modify_cursor_logic that drops the node the order starts with
exclude_hit(ord, node, exclude_node) == exclude_node /\ order_first(ord) = node

\* the end of modify_cursor_logic: with exclude_node, an order starting with the node
\* loses it and the cursor moves to the octant that follows
cursor_with_logic(cursor, cross_logic, node, exclude_node) ==
  LET hit == exclude_hit(cross_logic.order, node, exclude_node)
      ord == IF hit THEN order_shift(cross_logic.order) ELSE cross_logic.order
  IN  [cursor EXCEPT !.cross_logic = [cross_logic EXCEPT !.order = ord],
                     !.node = IF hit THEN order_first(ord) ELSE node]

\* the cursor placed on (tree, node), with its logic set up anew
placed_cursor(h, cursor, node, exclude_node) ==
  cursor_with_logic(cursor, setup_order(h, cursor), node, exclude_node)

\* modify_cursor_logic
modify_cursor_logic(h, w, tree, node, exclude_node) ==
  [w EXCEPT !.cursor = placed_cursor(h, [w.cursor EXCEPT !.tree = tree, !.node = node],
                                     node, exclude_node)]

\* validate_cursor_state (cursor.tree is always set once the walker is constructed)
validate_cursor_state(h, w) ==
  IF w.cursor.cross_logic.defined THEN w
  ELSE modify_cursor_logic(h, w, w.cursor.tree, w.cursor.node, FALSE)

\* pop_info_stack: ret is the truth of what it returns, false on an empty stack and
\* undefined after a pop, as the function ends without a return statement
pop_info_stack(w, exclude_node) ==
  IF w.info_stack = << >> THEN [w |-> w, ret |-> FALSE]
  ELSE LET info == w.info_stack[Len(w.info_stack)]
           ord  == IF exclude_node THEN order_shift(info.cross_logic.order)
                   ELSE info.cross_logic.order
       IN  [w   |-> [w EXCEPT !.info_stack = SubSeq(w.info_stack, 1, Len(w.info_stack) - 1),
                              !.cursor.tree = info.tree,
                              !.cursor.node = order_first(ord),
                              !.cursor.cross_logic = [info.cross_logic EXCEPT !.order = ord]],
            ret |-> FALSE]

\* push_info_stack
push_info_stack(w) ==
  [w EXCEPT !.info_stack = Append(w.info_stack,
                                  [tree |-> w.cursor.tree,
                                   cross_logic |-> w.cursor.cross_logic,
                                   was_returned |-> w.cursor.was_returned])]

\* step_back once pop_info_stack has returned p: ok is the truth of what it returns
step_back_popped(h, p) ==
  IF p.ret THEN [w |-> p.w, ok |-> TRUE]
  ELSE LET parent == h[p.w.cursor.tree].parent
       IN  IF parent # NoNode
           THEN [w  |-> modify_cursor_logic(h, p.w, parent,
                                            index_within_parent(h, p.w.cursor.tree), TRUE),
                 ok |-> TRUE]
           ELSE [w |-> p.w, ok |-> FALSE]

\* step_back
step_back(h, w) == step_back_popped(h, pop_info_stack(w, TRUE))

\* step_in
step_in(h, w, subtree) ==
  LET w1 == modify_cursor_logic(h, push_info_stack(w), subtree, Undef, FALSE)
  IN  [w1 EXCEPT !.cursor.was_returned = TRUE]

\* what next() returns: a stop (node, pos) or null; pos undefined is tree NoNode
Null == [null |-> TRUE, node |-> NoNode, tree |-> NoNode, octant |-> Undef]

Stop(node, tree, octant) == [null |-> FALSE, node |-> node, tree |-> tree, octant |-> octant]

RECURSIVE next_do(_, _, _)
RECURSIVE next_while(_, _, _)
RECURSIVE next_stepped_back(_, _, _)

\* the inner loop of next(): shift the order until a crossed octant is found; an
\* exhausted order yields the tree itself once, and then the walker steps back
next_while(h, w, include_undefined) ==
  LET ord == w.cursor.cross_logic.order
  IN  IF ord = << >>
      THEN IF ~w.cursor.was_returned
           THEN LET tree_pos_idx == index_within_parent(h, w.cursor.tree)
                IN  [w   |-> [w EXCEPT !.cursor.was_returned = TRUE],
                     out |-> IF tree_pos_idx # Undef
                             THEN Stop(w.cursor.tree, h[w.cursor.tree].parent, tree_pos_idx)
                             ELSE Stop(w.cursor.tree, NoNode, Undef)]
           ELSE next_stepped_back(h, step_back(h, w), include_undefined)
      ELSE LET next_index == Head(ord)
               w1    == [w EXCEPT !.cursor.cross_logic.order = Tail(ord)]
               tree  == w.cursor.tree
               child == h[tree].nodes[next_index]
           IN  IF is_crossed(next_index, w.cursor.cross_logic.logic)
                  /\ (include_undefined \/ child # NoNode)
               THEN [w   |-> IF child # NoNode THEN step_in(h, w1, child)
                             ELSE [w1 EXCEPT !.cursor.node = next_index],
                     out |-> Stop(child, tree, next_index)]
               ELSE next_while(h, w1, include_undefined)

\* the condition of the do-while, step_back having returned b: go on from where it
\* went, or return null when there was nowhere to go
next_stepped_back(h, b, include_undefined) ==
  IF b.ok THEN next_do(h, b.w, include_undefined)
  ELSE [w |-> b.w, out |-> Null]

\* the body of the do-while: an invalidated tree is skipped
next_do(h, w, include_undefined) ==
  IF h[w.cursor.tree].invalidated
  THEN next_stepped_back(h, step_back(h, w), include_undefined)
  ELSE next_while(h, w, include_undefined)

\* next() once start_point and direction are set
next(h, w, include_undefined) == next_do(h, validate_cursor_state(h, w), include_undefined)

(* ----------------------------- raytracer.ts ----------------------------- *)

\* colour channels are integers, ColorOne standing for the intensity 1.0
ColorOne == 16

color(r, g, b) == <<r, g, b>>

COLOR_BLACK == color(0, 0, 0)

COLOR_WHITE == color(ColorOne, ColorOne, ColorOne)

\* the hadamard product of two colours
mul_color(c1, c2) == [i \in 1..3 |-> (c1[i] * c2[i]) \div ColorOne]

clamp_color(c) == [i \in 1..3 |-> clamp(c[i], 0, ColorOne)]

dot(v1, v2) == v1[1] * v2[1] + v1[2] * v2[2] + v1[3] * v2[3]

\* Vector.length, for the vectors of the model, whose length is whole
length(v) == CHOOSE r \in 0..(4 * RootSize) : r * r = dot(v, v)

\* Vector.reflection, for a normalized normal
reflection(v, normal) == add(v, scale(normal, (0 - dot(v, normal)) * 2))

\* Vector.near_equal(v2, 1e-5): no component of v1 exceeds that of v2 by more than
\* max_diff, which is below one unit of length of the model
near_equal(v1, v2) == \A i \in 1..3 : ~(v1[i] - v2[i] > 0)

\* the materials: StaticMaterial(response, light_source, mirror)
Material(response, light_source, mirror) ==
  [response |-> response, light_source |-> light_source, mirror |-> mirror]

SIMPLE_SMOOTH_MATERIAL == Material("REFLECTION", FALSE, TRUE)

SIMPLE_LIGHT_MATERIAL == Material("REFLECTION", TRUE, FALSE)

\* a reflecting material that is not a mirror, a refracting one, and one of response BOTH
MATT_MATERIAL == Material("REFLECTION", FALSE, FALSE)

GLASS_MATERIAL == Material("REFRACTION", FALSE, FALSE)

BOTH_MATERIAL == Material("BOTH", FALSE, FALSE)

\* the material and the texture colour of each sphere of the scene
EntityMaterial ==
  << SIMPLE_SMOOTH_MATERIAL, GLASS_MATERIAL, SIMPLE_LIGHT_MATERIAL, MATT_MATERIAL,
     SIMPLE_SMOOTH_MATERIAL, SIMPLE_SMOOTH_MATERIAL, SIMPLE_SMOOTH_MATERIAL,
     SIMPLE_SMOOTH_MATERIAL, BOTH_MATERIAL >>

EntityTexture ==
  << color(ColorOne, ColorOne \div 2, ColorOne), color(ColorOne, ColorOne, ColorOne \div 2),
     color(ColorOne, ColorOne, ColorOne), color(ColorOne \div 2, ColorOne, 0),
     COLOR_WHITE, COLOR_WHITE, COLOR_WHITE, COLOR_WHITE,
     color(ColorOne, ColorOne \div 2, ColorOne \div 2) >>

\* Sky.get_color(dir): the texture of the sky in the direction dir
sky_get_color(dir) == [i \in 1..3 |-> IF dir[i] >= 0 THEN ColorOne ELSE ColorOne \div 2]

\* RaytracerConfig.distance_attenuation_factor
distance_attenuation_factor == 1

\* entity.collision_info(ray): null, or the point and the normal of the collision
NoCollision == [defined |-> FALSE, point |-> vector(0, 0, 0), normal |-> vector(0, 0, 0)]

Collision(point, normal) == [defined |-> TRUE, point |-> point, normal |-> normal]

\* the entities of a set in the order of iteration, which is the order of insertion
RECURSIVE SetOrder(_)
SetOrder(S) ==
  IF S = {} THEN << >>
  ELSE LET e == CHOOSE x \in S : \A y \in S : x <= y
       IN  <<e>> \o SetOrder(S \ {e})

NoHit ==
  [e |-> 0, pull |-> 0, dot |-> 0, color |-> COLOR_BLACK, dir |-> vector(0, 0, 0),
   refcount |-> 0, material |-> BOTH_MATERIAL]

\* no Ray: trace_frame is between two pixels
NoRay ==
  [phase |-> "idle", refcount |-> 0, refmax |-> 0, refpoint |-> vector(0, 0, 0),
   dir |-> vector(0, 0, 0), color |-> COLOR_BLACK, path_distance |-> 0,
   light_hit |-> FALSE, exit |-> "none", pulls |-> 0, hit |-> NoHit]

\* new Ray(rt, refmax, start_point, dir, color, walker, {keep_dir_unnormalized: true})
new_ray(refmax, start_point, dir, col) ==
  [NoRay EXCEPT !.phase = "tracing", !.refmax = refmax, !.refpoint = start_point,
                !.dir = dir, !.color = col]

\* the for loop of trace() over the entities of a node: the collision and the entity
\* it ends with; cis[e] is what entity.collision_info returns for e
RECURSIVE find_collision(_, _, _, _, _)
find_collision(ord, cis, refpoint, entity, collision_info) ==
  IF ord = << >> THEN [e |-> entity, c |-> collision_info]
  ELSE LET c == cis[Head(ord)]
       IN  IF c.defined /\ ~near_equal(c.point, refpoint)
           THEN [e |-> Head(ord), c |-> c]
           ELSE find_collision(Tail(ord), cis, refpoint, Head(ord), c)

\* the reflection limit test of trace()
limit_reached_after(refcount, refmax) == refcount > refmax

limit_reached(refcount, refmax) == refcount >= refmax

\* the light source test of trace()
is_light_source_never(m) == FALSE

is_light_source(m) == m.light_source

\* a return statement inside the loop of trace()
trace_return(r, exit) == [r EXCEPT !.phase = "done", !.exit = exit]

\* the end of a collision: the reflection limit
trace_limit(r, w) ==
  IF limit_reached(r.refcount, r.refmax)
  THEN [ray |-> trace_return([r EXCEPT !.color = COLOR_BLACK], "black"), w |-> w]
  ELSE [ray |-> r, w |-> w]

\* the colour once the inverse square law has attenuated it over path_distance
attenuate(c, path_distance) ==
  LET d == path_distance * distance_attenuation_factor
  IN  IF d = 0
      THEN [i \in 1..3 |-> IF c[i] > 0 THEN ColorOne ELSE 0]
      ELSE clamp_color([i \in 1..3 |-> (c[i] * RootSize * RootSize) \div (d * d)])

\* trace() after its loop
trace_sky_blind(r) == [r EXCEPT !.phase = "done", !.exit = "sky"]

trace_sky(r) ==
  [r EXCEPT !.phase = "done", !.exit = "sky",
            !.color = mul_color(r.color, sky_get_color(r.dir))]

trace_after_loop(r) ==
  IF ~r.light_hit
  THEN trace_sky(r)
  ELSE [r EXCEPT !.phase = "done", !.exit = "light",
                 !.color = attenuate(r.color, r.path_distance)]

\* the response of the material once the ray r1 and the walker w1 are at the collision
trace_response(r1, w1, m, normal) ==
  IF is_light_source(m)
  THEN [ray |-> trace_after_loop([r1 EXCEPT !.light_hit = TRUE]), w |-> w1]
  ELSE IF m.response = "REFLECTION"
  THEN IF ~m.mirror
       THEN [ray |-> trace_return(r1, "absorbed"), w |-> w1]
       ELSE trace_limit([r1 EXCEPT !.dir = reflection(r1.dir, normal)],
                        set_direction(w1, reflection(r1.dir, normal)))
  ELSE IF m.response = "REFRACTION"
  THEN trace_limit(r1, w1)
  ELSE [ray |-> trace_return(r1, "scattered"), w |-> w1]

\* the body of the loop of trace() for a collision c with the entity e; hit keeps what
\* the ray was when the collision was found
trace_collision(h, r, w, e, c) ==
  trace_response(
    [r EXCEPT !.refcount = r.refcount + 1,
              !.color = mul_color(r.color, EntityTexture[e]),
              !.path_distance = r.path_distance + length(sub(c.point, r.refpoint)),
              !.refpoint = c.point,
              !.hit = [e |-> e, pull |-> r.pulls, dot |-> dot(r.dir, c.normal),
                       color |-> r.color, dir |-> r.dir, refcount |-> r.refcount,
                       material |-> EntityMaterial[e]]],
    set_start_point(h, w, c.point), EntityMaterial[e], c.normal)

\* one round of the loop of trace(), nx being what walker.next() gave
trace_round(h, r, nx, found) ==
  IF ~found.c.defined
  THEN [ray |-> r, w |-> nx.w]
  ELSE trace_collision(h, r, nx.w, found.e, found.c)

\* one evaluation of the loop condition of trace() and the round that follows it;
\* reading the set of a node without a value raises a TypeError
trace_step(h, r, nx, cis) ==
  IF nx.out.null
  THEN [ray |-> trace_after_loop([r EXCEPT !.pulls = r.pulls + 1]), w |-> nx.w]
  ELSE IF ~h[nx.out.node].value.defined
  THEN [ray |-> trace_return([r EXCEPT !.pulls = r.pulls + 1], "raised"), w |-> nx.w]
  ELSE trace_round(h, [r EXCEPT !.pulls = r.pulls + 1], nx,
                   find_collision(SetOrder(h[nx.out.node].value.set), cis, r.refpoint,
                                  0, NoCollision))

\* new Raytracer(config, otree, camera, screen), before trace_frame
NoTracer ==
  [started |-> FALSE, refmax |-> 0, pos |-> vector(0, 0, 0), pixels |-> 0,
   screen |-> << >>, flushed |-> FALSE]

(* ------------------------------- state ---------------------------------- *)

VARIABLES
  heap,      \* every Octree object created so far, by identity 1..Len(heap)
  config,    \* the AddEntityToOctreeFlags the caller uses
  placed,    \* per entity, the node its insertion returned (NoNode: none)
  result,    \* the last call: its kind, arguments, outcome and the heap before it
  calls,     \* number of add_entity_to_octree and new_subtree calls made
  walker,    \* the OctreeWalker constructed on the tree: its cursor and info stack
  walk,      \* the current walk: the stops next() has returned since the ray was set
  tracer,    \* the Raytracer: its config, camera, the pixels started and the screen
  ray        \* the Ray of the pixel being traced

vars == <<heap, config, placed, result, calls, walker, walk, tracer, ray>>

\* the tree the caller holds and passes to every call
TheTree == 1

NoResult ==
  [op |-> "none", e |-> 0, node |-> NoNode, error |-> "none", abs_root |-> NoNode,
   covering |-> NoNode, start |-> NoNode, point |-> vector(0, 0, 0), octant |-> 0,
   value |-> NoNode, keep_old_valid |-> FALSE, pre |-> << >>,
   box |-> [pos |-> vector(0, 0, 0), size |-> vector(0, 0, 0)],
   line |-> [start |-> vector(0, 0, 0), dir |-> vector(0, 0, 0)], hits |-> << >>,
   screen_w |-> 0, screen_h |-> 0, pixels |-> << >>]

\* earlier: the walker had already given stops when this walk was set up
NoWalk ==
  [stops |-> << >>, ended |-> FALSE, include_undefined |-> FALSE, error |-> FALSE,
   earlier |-> FALSE]

Init ==
  /\ heap = << new_entity_octree([pos |-> vector(0, 0, 0), size |-> RootSize], NoNode) >>
  /\ config \in [max_in_depth : 0..MaxInDepth, max_out_depth : 0..MaxOutDepth]
  /\ placed = [e \in Entities |-> NoNode]
  /\ result = NoResult
  /\ calls = 0
  /\ walker = new_walker(TheTree)
  /\ walk = NoWalk
  /\ tracer = NoTracer
  /\ ray = NoRay

Inserted == {e \in Entities : placed[e] # NoNode}


\* the state once add_entity_to_octree has returned or thrown r
AddEntityReturns(e, r) ==
  /\ heap' = r.heap
  /\ placed' = [placed EXCEPT ![e] = r.node]
  /\ result' = [NoResult EXCEPT !.op = "add", !.e = e, !.node = r.node,
                   !.error = r.error, !.abs_root = r.abs_root,
                   !.covering = r.covering, !.start = r.start, !.pre = heap]

\* a caller inserts a sphere it has not inserted yet
AddEntityToOctree(e) ==
  /\ placed[e] = NoNode
  /\ AddEntityReturns(e, add_entity_to_octree(heap, TheTree, e, config))
  /\ calls' = calls + 1
  /\ UNCHANGED <<config, walker, walk, tracer, ray>>

\* slots the callers of new_subtree use (test/octree-space.test.ts, part_000)
SubtreeSlots == {0, 3, 7}

\* a caller subdivides an empty slot of a node (the code throws on a taken one)
NewSubtree(t, n) ==
  /\ heap[t].nodes[n] = NoNode
  /\ heap[t].id.size >= RootSize \div 2
  /\ heap' = new_subtree(heap, t, n)
  /\ result' = [NoResult EXCEPT !.op = "new_subtree", !.node = Len(heap) + 1, !.pre = heap]
  /\ calls' = calls + 1
  /\ UNCHANGED <<config, placed, walker, walk, tracer, ray>>

\* points a caller looks up, in units of U
QueryPoints ==
  { scale(v, U) : v \in { vector(6, 4, 2), vector(7, 7, 7), vector(-1, 1, 1) } }

\* a caller looks a point up from the absolute root
NodeAtPos(p) ==
  /\ LET root == get_root(heap, TheTree)
         r    == node_at_pos(heap, root, p, FALSE)
     IN  result' = [NoResult EXCEPT !.op = "node_at_pos", !.point = p, !.start = root,
                       !.node = r.tree, !.octant = r.octant, !.pre = heap]
  /\ UNCHANGED <<heap, config, placed, calls, walker, walk, tracer, ray>>

\* the spheres the callers of the tree specification insert
TreeEntities == {1, 7}

\* the slots the callers of the tree specification subdivide
TreeSlots == {0, 7}

Next ==
  \/ \E e \in TreeEntities : calls < MaxCalls /\ AddEntityToOctree(e)
  \/ \E t \in DOMAIN heap, n \in TreeSlots : calls < MaxCalls /\ NewSubtree(t, n)
  \/ \E p \in QueryPoints : NodeAtPos(p)

Spec == Init /\ [][Next]_vars

\* the entity index alone: insertions only, of the spheres of IndexEntities
IndexEntities == 1..8

NextEntity == \E e \in IndexEntities : calls < MaxAdds /\ AddEntityToOctree(e)

SpecEntity == Init /\ [][NextEntity]_vars

\* a caller looks a point up through any node of the tree, start_from_current unset
NodeAtPosOf(t, p) ==
  /\ LET r == node_at_pos(heap, t, p, FALSE)
     IN  result' = [NoResult EXCEPT !.op = "node_at_pos", !.point = p, !.start = t,
                       !.node = r.tree, !.octant = r.octant, !.pre = heap]
  /\ UNCHANGED <<heap, config, placed, calls, walker, walk, tracer, ray>>

\* lookups through every node of trees that insertions built
NextLookup ==
  \/ \E e \in TreeEntities : calls < MaxCalls /\ AddEntityToOctree(e)
  \/ \E t \in DOMAIN heap, p \in QueryPoints : NodeAtPosOf(t, p)

SpecLookup == Init /\ [][NextLookup]_vars

\* start points of rays, in units of U: a corner of the root box, inside it, and
\* the far corner, which the closed-open box leaves outside
StartPoints ==
  { scale(v, U) : v \in { vector(0, 0, 0), vector(1, 2, 3), vector(6, 5, 5),
                          vector(7, 7, 7), vector(8, 8, 8) } }

\* directions of rays
Directions ==
  { vector(5, 3, 2), vector(2, 1, 4), vector(1, 1, 1), vector(1, 0, 0),
    vector(-1, -1, -1), vector(0, -1, 0) }

\* the caller sets the start point of the ray: a new walk begins
SetStartPoint(p) ==
  /\ walker' = set_start_point(heap, walker, p)
  /\ walk' = NoWalk
  /\ UNCHANGED <<heap, config, placed, result, calls, tracer, ray>>

\* the caller sets the direction of the ray, before the first next() of a walk
SetDirection(d) ==
  /\ walk.stops = << >>
  /\ ~walk.ended
  /\ walker' = set_direction(walker, d)
  /\ walk' = NoWalk
  /\ UNCHANGED <<heap, config, placed, result, calls, tracer, ray>>

\* the walk once next() has returned out: a stop is recorded, null ends the walk
walk_after(wk, out, include_undefined) ==
  [stops |-> IF out.null THEN wk.stops ELSE Append(wk.stops, out),
   ended |-> out.null,
   include_undefined |-> include_undefined,
   error |-> FALSE,
   earlier |-> wk.earlier]

\* the caller asks for the next stop, with the same flags throughout a walk;
\* prepare_to_walk throws while the start point or the direction is undefined
WalkerNext(include_undefined) ==
  /\ ~walk.ended
  /\ walk.stops # << >> => include_undefined = walk.include_undefined
  /\ IF ~walker.cursor.start_point.defined \/ ~walker.cursor.direction.defined
     THEN /\ walk' = [walk EXCEPT !.error = TRUE]
          /\ UNCHANGED walker
     ELSE /\ walker' = next(heap, walker, include_undefined).w
          /\ walk' = walk_after(walk, next(heap, walker, include_undefined).out,
                                include_undefined)
  /\ UNCHANGED <<heap, config, placed, result, calls, tracer, ray>>

\* the spheres inserted into the trees that are walked
WalkEntities == {3, 5, 8, 9}

\* the tree is built before the walker is used, and is not changed afterwards
WalkerUnused == walker = new_walker(TheTree) /\ walk = NoWalk

InitWalk ==
  /\ Init
  /\ config = [max_in_depth |-> MaxInDepth, max_out_depth |-> MaxOutDepth]

NextWalk ==
  \/ \E n \in SubtreeSlots : calls < MaxCalls /\ WalkerUnused /\ NewSubtree(TheTree, n)
  \/ \E e \in WalkEntities : calls < MaxCalls /\ WalkerUnused /\ AddEntityToOctree(e)
  \/ \E p \in StartPoints : SetStartPoint(p)
  \/ \E d \in Directions : SetDirection(d)
  \/ \E include_undefined \in BOOLEAN : WalkerNext(include_undefined)

SpecWalk == InitWalk /\ [][NextWalk]_vars


(* ---------------------------- a walker reused --------------------------- *)

\* the rays the one walker is set up for, one after another
RewalkPoints == { scale(v, U) : v \in { vector(1, 2, 3), vector(6, 5, 5), vector(0, 0, 0) } }

RewalkDirections == { vector(5, 3, 2), vector(-1, -1, -1), vector(2, 1, 4) }

\* the walker is given a new ray as Ray.trace does: direction, then start point
Rewalk(p, d) ==
  /\ walker' = set_start_point(heap, set_direction(walker, d), p)
  /\ walk' = [NoWalk EXCEPT !.earlier = walk.earlier \/ walk.stops # << >>]
  /\ UNCHANGED <<heap, config, placed, result, calls, tracer, ray>>

NextRewalk ==
  \/ \E e \in WalkEntities : calls < MaxCalls /\ WalkerUnused /\ AddEntityToOctree(e)
  \/ \E p \in RewalkPoints, d \in RewalkDirections : Rewalk(p, d)
  \/ \E include_undefined \in BOOLEAN : WalkerNext(include_undefined)

SpecRewalk == InitWalk /\ [][NextRewalk]_vars

(* ------------------------- a subtree replaced --------------------------- *)

\* new_subtree(tree, n, {allow_replace: true}) on a taken slot: Octree.set puts the
\* new subtree there and invalidates the old one, not its children
ReplaceSubtree(t, n) ==
  /\ heap[t].nodes[n] # NoNode
  /\ heap' = new_subtree(heap, t, n)
  /\ result' = [NoResult EXCEPT !.op = "replace", !.node = Len(heap) + 1, !.pre = heap]
  /\ calls' = calls + 1
  /\ UNCHANGED <<config, placed, walker, walk, tracer, ray>>

\* spheres of the trees whose subtrees are replaced: in child 0 and below it
ReplaceEntities == {3, 8, 9}

\* the rays walked over these trees start in child 0
ReplacePoints == { scale(v, U) : v \in { vector(3, 1, 1), vector(1, 2, 3) } }

ReplaceDirections == { vector(5, 3, 2), vector(-1, -1, -1), vector(1, 0, 0) }

\* the tree is built, the walker is set up and walks, and at any time a child of the
\* root may be replaced
NextReplace ==
  \/ \E e \in ReplaceEntities : calls < MaxCalls /\ WalkerUnused /\ AddEntityToOctree(e)
  \/ \E n \in TreeSlots : calls < MaxCalls /\ ReplaceSubtree(TheTree, n)
  \/ \E p \in ReplacePoints, d \in ReplaceDirections : Rewalk(p, d)
  \/ \E include_undefined \in BOOLEAN : WalkerNext(include_undefined)

SpecReplace == InitWalk /\ [][NextReplace]_vars

(* ----------------------- a walker not yet ready ------------------------ *)

\* directions a caller may hand to the setter, the zero vector among them
PrepareDirections == { vector(0, 0, 0), vector(1, 1, 1), vector(5, 3, 2) }

PreparePoints == { scale(v, U) : v \in { vector(1, 2, 3), vector(6, 5, 5) } }

\* next() is called on a walker whatever has been set on it
NextPrepare ==
  \/ \E e \in WalkEntities : calls < MaxCalls /\ WalkerUnused /\ AddEntityToOctree(e)
  \/ \E p \in PreparePoints : SetStartPoint(p)
  \/ \E d \in PrepareDirections : SetDirection(d)
  \/ \E include_undefined \in BOOLEAN : WalkerNext(include_undefined)

SpecPrepare == InitWalk /\ [][NextPrepare]_vars

(* ------------------------ a walk from outside --------------------------- *)

\* start points outside the box of the tree, in units of U
OutsidePoints ==
  { scale(v, U) : v \in { vector(-1, 1, 1), vector(9, 9, 9), vector(3, -2, 3) } }

OutsideDirections ==
  { vector(-1, -1, -1), vector(1, 1, 1), vector(1, 0, 0), vector(0, -1, 0), vector(5, 3, 2) }

\* spheres inside the initial root: the tree does not grow towards the start points
OutsideEntities == {3, 8, 9}

NextOutside ==
  \/ \E e \in OutsideEntities : calls < MaxCalls /\ WalkerUnused /\ AddEntityToOctree(e)
  \/ \E p \in OutsidePoints, d \in OutsideDirections : Rewalk(p, d)
  \/ \E include_undefined \in BOOLEAN : WalkerNext(include_undefined)

SpecOutside == InitWalk /\ [][NextOutside]_vars

(* ------------------------------ Octree.set ------------------------------ *)

\* the state once tree.set(n, value, flags) has returned, h being the heap the call
\* was made in (with the Octree the caller made for it, if any)
SetReturns(h, t, n, value, keep_old_valid, invalidate_recurse) ==
  /\ heap' = OctreeSetFlags(h, t, n, value, keep_old_valid, invalidate_recurse)
  /\ result' = [NoResult EXCEPT !.op = "set", !.start = t, !.octant = n, !.value = value,
                                !.keep_old_valid = keep_old_valid,
                                !.node = OctreeSetReturns(h, t, n), !.pre = h]
  /\ calls' = calls + 1
  /\ UNCHANGED <<config, placed, walker, walk, tracer, ray>>

\* a caller sets a slot to undefined or to the value it holds already
SetChild(t, n, value, keep_old_valid, invalidate_recurse) ==
  /\ value \in {NoNode, heap[t].nodes[n]}
  /\ SetReturns(heap, t, n, value, keep_old_valid, invalidate_recurse)

\* a caller sets a slot to an Octree it has just constructed
SetNewChild(t, n, keep_old_valid, invalidate_recurse) ==
  SetReturns(Append(heap, Octree(subdim(heap[t].id, n), t, NoValue)), t, n, Len(heap) + 1,
             keep_old_valid, invalidate_recurse)

\* spheres of the trees whose slots are set: in child 0 of the root and below it
SetEntities == {1, 3, 9}

NextSet ==
  \/ \E e \in SetEntities : calls < MaxCalls /\ AddEntityToOctree(e)
  \/ \E t \in DOMAIN heap, n \in TreeSlots, value \in {NoNode} \cup DOMAIN heap,
        keep_old_valid, invalidate_recurse \in BOOLEAN :
        calls < MaxCalls /\ SetChild(t, n, value, keep_old_valid, invalidate_recurse)
  \/ \E t \in DOMAIN heap, n \in TreeSlots, keep_old_valid, invalidate_recurse \in BOOLEAN :
        calls < MaxCalls /\ SetNewChild(t, n, keep_old_valid, invalidate_recurse)

SpecSet == Init /\ [][NextSet]_vars

(* ------------------------------ Box.line_intersection ------------------------------ *)

\* a number of the intersection code: a quotient n/d with d > 0, an infinity, or NaN
Fin(n, d) == [k |-> "fin", n |-> n, d |-> d]

PInf == [k |-> "pinf", n |-> 1, d |-> 0]

NInf == [k |-> "ninf", n |-> 0 - 1, d |-> 0]

NaN == [k |-> "nan", n |-> 0, d |-> 0]

\* elem / q, where q is a line.dir component (negzero: q is -0 when it is zero)
Quotient(elem, q, negzero) ==
  IF q > 0 THEN Fin(elem, q)
  ELSE IF q < 0 THEN Fin(0 - elem, 0 - q)
  ELSE IF elem = 0 THEN NaN
  ELSE IF (elem > 0) = negzero THEN NInf ELSE PInf

\* a > b on these numbers
Greater(a, b) ==
  IF a.k = "nan" \/ b.k = "nan" THEN FALSE
  ELSE IF a.k = "pinf" THEN b.k # "pinf"
  ELSE IF a.k = "ninf" THEN FALSE
  ELSE IF b.k = "pinf" THEN FALSE
  ELSE IF b.k = "ninf" THEN TRUE
  ELSE a.n * b.d > b.n * a.d

\* a < b on these numbers
Less(a, b) == Greater(b, a)

\* no face chosen: i1 or i2 still undefined
NoFace == 0 - 1

\* Box.line_intersection: the array p, indexed from 0; coordinates are doubled, so
\* that half a size is whole
BoxP(box, line) ==
  LET tl_pos == sub(scale(box.pos, 2), box.size)
      start == scale(line.start, 2)
      size == scale(box.size, 2)
  IN  [i \in 0..5 |-> IF i % 2 = 0 THEN start[(i \div 2) + 1] - tl_pos[(i \div 2) + 1]
                      ELSE tl_pos[(i \div 2) + 1] + size[(i \div 2) + 1] - start[(i \div 2) + 1]]

\* Box.line_intersection: the array q, indexed from 0, doubled as p is
BoxQ(line) ==
  [i \in 0..5 |-> IF i % 2 = 0 THEN 0 - 2 * line.dir[(i \div 2) + 1]
                  ELSE 2 * line.dir[(i \div 2) + 1]]

\* Box.line_intersection: the loop over the six faces, from face i on
RECURSIVE box_faces(_, _, _, _)
box_faces(p, q, i, acc) ==
  IF i >= 6 THEN acc
  ELSE LET elem == p[i]
           u == Quotient(elem, q[i], i % 2 = 0)
       IN  IF elem < 0
           THEN box_faces(p, q, i + 1,
                          IF Greater(u, acc.u1) THEN [acc EXCEPT !.u1 = u, !.i1 = i] ELSE acc)
           ELSE box_faces(p, q, i + 1,
                          IF Less(u, acc.u2) THEN [acc EXCEPT !.u2 = u, !.i2 = i] ELSE acc)

\* Box.line_intersection(line, flags): the hits returned; normal is the index into
\* FACE_NORMALS
line_intersection(box, line) ==
  LET f == box_faces(BoxP(box, line), BoxQ(line), 0,
                     [u1 |-> NInf, u2 |-> PInf, i1 |-> NoFace, i2 |-> NoFace])
  IN  IF Greater(f.u1, f.u2) THEN << >>
      ELSE << [parameter |-> f.u2, normal |-> f.i2], [parameter |-> f.u1, normal |-> f.i1] >>

\* the boxes and lines of the calls: a cube and a slab around the origin, lines
\* starting inside, on and outside them
Boxes ==
  { [pos |-> vector(0, 0, 0), size |-> vector(2, 2, 2)],
    [pos |-> vector(1, 0, 0), size |-> vector(4, 2, 2)] }

LineStarts == { vector(x, y, z) : x \in {0 - 3, 0, 1}, y \in {0 - 2, 0}, z \in {0, 2} }

LineDirs == { vector(x, y, z) : x \in {0 - 1, 0, 1}, y \in {0, 1}, z \in {0 - 1, 0} }

\* a Box and a line made, line_intersection not yet called
InitBox ==
  /\ heap = << new_entity_octree([pos |-> vector(0, 0, 0), size |-> RootSize], NoNode) >>
  /\ config = [max_in_depth |-> MaxInDepth, max_out_depth |-> MaxOutDepth]
  /\ placed = [e \in Entities |-> NoNode]
  /\ calls = 0
  /\ walker = new_walker(TheTree)
  /\ walk = NoWalk
  /\ tracer = NoTracer
  /\ ray = NoRay
  /\ \E box \in Boxes, start \in LineStarts, dir \in LineDirs :
        result = [NoResult EXCEPT !.op = "line", !.box = box,
                                  !.line = [start |-> start, dir |-> dir]]

\* box.line_intersection(line, {}) called and returned
LineIntersection ==
  /\ result.op = "line"
  /\ result' = [result EXCEPT !.op = "line_intersection",
                              !.hits = line_intersection(result.box, result.line)]
  /\ UNCHANGED <<heap, config, placed, calls, walker, walk, tracer, ray>>

NextBox == LineIntersection

SpecBox == InitBox /\ [][NextBox]_vars

(* ------------------------------ Camera.get_dir_for_each_pixel ------------------------------ *)

\* the values of i in for (let i = from; i != to; i += loop_inc), in order
RECURSIVE loop_values(_, _, _)
loop_values(from, to, loop_inc) ==
  IF from = to THEN << >> ELSE <<from>> \o loop_values(from + loop_inc, to, loop_inc)

\* iter_h(from_x, to_x, y, ...): the pixels it yields
iter_h(from_x, to_x, y, loop_inc) ==
  LET xs == loop_values(from_x, to_x, loop_inc)
  IN  [k \in 1..Len(xs) |-> [x |-> xs[k], y |-> y]]

\* the concatenation of the sequences of a sequence
RECURSIVE flatten(_)
flatten(ss) == IF ss = << >> THEN << >> ELSE Head(ss) \o flatten(Tail(ss))

\* iter_v(from_y, to_y, ...): the pixels it yields, for a camera of screen_h
iter_v(from_y, to_y, loop_inc, screen_h) ==
  LET ys == loop_values(from_y, to_y, loop_inc)
  IN  flatten([k \in 1..Len(ys) |->
                 iter_h(screen_h \div 2, screen_h, ys[k], 1)
                   \o iter_h((screen_h \div 2) - 1, 0 - 1, ys[k], 0 - 1)])

\* get_dir_for_each_pixel(): the pixels the generator yields, in order
get_dir_for_each_pixel(screen_w, screen_h) ==
  iter_v(screen_w \div 2, screen_w, 1, screen_h)
    \o iter_v((screen_w \div 2) - 1, 0 - 1, 0 - 1, screen_h)

\* a Camera made for a screen, its generator not yet started
InitCamera ==
  /\ heap = << new_entity_octree([pos |-> vector(0, 0, 0), size |-> RootSize], NoNode) >>
  /\ config = [max_in_depth |-> MaxInDepth, max_out_depth |-> MaxOutDepth]
  /\ placed = [e \in Entities |-> NoNode]
  /\ calls = 0
  /\ walker = new_walker(TheTree)
  /\ walk = NoWalk
  /\ tracer = NoTracer
  /\ ray = NoRay
  /\ \E screen_w \in 0..MaxScreen, screen_h \in 0..MaxScreen :
        result = [NoResult EXCEPT !.op = "camera", !.screen_w = screen_w,
                                  !.screen_h = screen_h]

\* the caller takes the next pixel of the generator
YieldPixel ==
  /\ result.op = "camera"
  /\ LET all == get_dir_for_each_pixel(result.screen_w, result.screen_h)
     IN  /\ Len(result.pixels) < Len(all)
         /\ result' = [result EXCEPT !.pixels = Append(@, all[Len(result.pixels) + 1])]
  /\ UNCHANGED <<heap, config, placed, calls, walker, walk, tracer, ray>>

\* the generator has no more pixels
PixelsDone ==
  /\ result.op = "camera"
  /\ Len(result.pixels) = Len(get_dir_for_each_pixel(result.screen_w, result.screen_h))
  /\ result' = [result EXCEPT !.op = "camera_done"]
  /\ UNCHANGED <<heap, config, placed, calls, walker, walk, tracer, ray>>

NextCamera == YieldPixel \/ PixelsDone

SpecCamera == InitCamera /\ [][NextCamera]_vars

(* ------------------------------ trace_frame ----------------------------- *)

\* the spheres of the scenes that are traced
TraceEntities == {1, 2, 3, 4, 9}

\* where the camera stands, and the directions of its pixels
CameraPositions == { scale(v, U) : v \in { vector(3, 1, 1), vector(-1, 1, 1) } }

\* get_dir_for_each_pixel yields the directions of the pixels in a fixed order
CameraPixels == << vector(1, 0, 0), vector(-1, -1, -1), vector(5, 3, 2) >>

PixelDir(i) == CameraPixels[((i - 1) % Len(CameraPixels)) + 1]

CameraDirs == { CameraPixels[i] : i \in DOMAIN CameraPixels }

\* what collision_info may return: points on the line of the camera, and normals
HitPoints == { scale(v, U) : v \in { vector(6, 1, 1), vector(1, 1, 1) } }

HitNormals == { vector(-1, 0, 0), vector(1, 0, 0), vector(0, 1, 0) }

Collisions ==
  {NoCollision} \cup { Collision(p, n) : p \in HitPoints, n \in HitNormals }

\* the scene is built before the Raytracer is, spheres in the order of their numbers
SceneAdd(e) ==
  /\ ~tracer.started
  /\ \A f \in Inserted : f < e
  /\ AddEntityToOctree(e)

\* a node without a value is put into the scene by new_subtree
SceneSubtree(n) ==
  /\ ~tracer.started
  /\ NewSubtree(TheTree, n)

\* new Raytracer(config, otree, camera, screen) and the call of trace_frame
TraceFrame(refmax, pos) ==
  /\ ~tracer.started
  /\ tracer' = [NoTracer EXCEPT !.started = TRUE, !.refmax = refmax, !.pos = pos]
  /\ walker' = new_walker(TheTree)
  /\ UNCHANGED <<heap, config, placed, result, calls, walk, ray>>

\* trace_frame takes the next pixel of the camera: new Ray, and trace() up to its loop
NewRay(dir) ==
  /\ tracer.started
  /\ ray.phase = "idle"
  /\ tracer.pixels < MaxPixels
  /\ dir = PixelDir(tracer.pixels + 1)
  /\ ray' = new_ray(tracer.refmax, tracer.pos, dir, COLOR_WHITE)
  /\ walker' = set_start_point(heap, set_direction(walker, dir), tracer.pos)
  /\ tracer' = [tracer EXCEPT !.pixels = tracer.pixels + 1]
  /\ UNCHANGED <<heap, config, placed, result, calls, walk>>

\* the state once a round of the loop of trace() has given t
TraceStepReturns(t) ==
  /\ ray' = t.ray
  /\ walker' = t.w
  /\ UNCHANGED <<heap, config, placed, result, calls, walk, tracer>>

\* the entities whose collision_info the round after the stop nx asks for
RoundEntities(nx) ==
  IF nx.out.null \/ ~heap[nx.out.node].value.defined THEN {}
  ELSE heap[nx.out.node].value.set

TraceStepAfter(nx) ==
  \E cis \in [RoundEntities(nx) -> Collisions] :
     TraceStepReturns(trace_step(heap, ray, nx, cis))

\* trace() pulls the next stop from the walker and evaluates it
TraceStep ==
  /\ ray.phase = "tracing"
  /\ TraceStepAfter(next(heap, walker, FALSE))

\* trace() has returned: trace_frame writes the colour of the ray to the screen
SetPixel ==
  /\ ray.phase = "done"
  /\ ray.exit # "raised"
  /\ tracer' = [tracer EXCEPT !.screen = Append(tracer.screen, ray.color)]
  /\ ray' = NoRay
  /\ UNCHANGED <<heap, config, placed, result, calls, walker, walk>>

\* the camera has no more pixels: screen.flush()
Flush ==
  /\ tracer.started
  /\ ray.phase = "idle"
  /\ tracer.pixels = MaxPixels
  /\ ~tracer.flushed
  /\ tracer' = [tracer EXCEPT !.flushed = TRUE]
  /\ UNCHANGED <<heap, config, placed, result, calls, walker, walk, ray>>

NextTrace ==
  \/ \E e \in TraceEntities : calls < MaxCalls /\ SceneAdd(e)
  \/ \E n \in TreeSlots : calls < MaxCalls /\ SceneSubtree(n)
  \/ \E refmax \in 0..MaxRefmax, pos \in CameraPositions : TraceFrame(refmax, pos)
  \/ \E dir \in CameraDirs : NewRay(dir)
  \/ TraceStep
  \/ SetPixel
  \/ Flush

SpecTrace == InitWalk /\ [][NextTrace]_vars

\* the steps of trace_frame other than a round of the loop of trace()
FrameStep ==
  \/ \E refmax \in 0..MaxRefmax, pos \in CameraPositions : TraceFrame(refmax, pos)
  \/ \E dir \in CameraDirs : NewRay(dir)
  \/ SetPixel
  \/ Flush

\* trace_frame is sequential code that runs on: its next step is taken when there is
\* one. TraceStep is enabled exactly while the ray is tracing, and its weak fairness is
\* written with that condition.
SpecTraceFair ==
  /\ SpecTrace
  /\ WF_vars(FrameStep)
  /\ ([]<>(ray.phase # "tracing") \/ []<><<TraceStep>>_vars)

(* ----------------------- geometry of the claims ------------------------- *)

\* the closed box of dimension `dim` wholly contains the AABB
BoxContainsAabb(dim, aabb) ==
  \A i \in 1..3 : /\ dim.pos[i] <= aabb.pos[i]
                  /\ aabb.pos[i] + aabb.size <= dim.pos[i] + dim.size

\* the point lies in the closed-open box of dimension `dim`
PointInBox(dim, p) ==
  \A i \in 1..3 : dim.pos[i] <= p[i] /\ p[i] < dim.pos[i] + dim.size

Bit(i, k) == (i \div (2 ^ k)) % 2

\* the sub-box of slot i: offset ((i&1), (i>>1)&1, (i>>2)&1) * size/2
CanonicalChildBox(dim, i) ==
  [pos  |-> [k \in 1..3 |-> dim.pos[k] + Bit(i, k - 1) * (dim.size \div 2)],
   size |-> dim.size \div 2]

\* the slot whose sub-box holds the point p of the box
OctantOf(dim, p) ==
  LET b == [k \in 1..3 |-> IF 2 * (p[k] - dim.pos[k]) >= dim.size THEN 1 ELSE 0]
  IN  b[1] + 2 * b[2] + 4 * b[3]

Children(h, n) == {h[n].nodes[i] : i \in 0..7} \ {NoNode}

RECURSIVE Descendants(_, _)
\* the nodes strictly below n, through child slots
Descendants(h, n) ==
  Children(h, n) \cup UNION {Descendants(h, c) : c \in Children(h, n)}

C2_CanonicalChildGeometry ==
  \A p \in DOMAIN heap : \A i \in 0..7 :
     heap[p].nodes[i] # NoNode =>
       heap[heap[p].nodes[i]].id = CanonicalChildBox(heap[p].id, i)

\* the old root sits in a non-zero slot of a new parent, and new_subtree and
\* inside growth have both made a child
C2_Witness ==
  /\ heap[TheTree].parent # NoNode
  /\ heap[heap[TheTree].parent].nodes[0] # TheTree
  /\ \E k \in DOMAIN heap : ~heap[k].value.defined
  /\ \E k \in DOMAIN heap : heap[k].value.defined /\ heap[k].id.size < RootSize

\* C3: a node has no parent iff it is the absolute root: the subtree in a
\* slot of p has parent p.
C3_ParentLinks ==
  /\ \A p \in DOMAIN heap : \A i \in 0..7 :
        heap[p].nodes[i] # NoNode => heap[heap[p].nodes[i]].parent = p
  /\ \A k \in DOMAIN heap :
        heap[k].parent = NoNode <=> k = get_root(heap, TheTree)

\* C4: for a point inside the absolute root, node_at_pos returns a tree whose
\* box holds the point and an octant whose sub-box holds it and has no subtree.
C4_NodeAtPosDeepest ==
  (result.op = "node_at_pos" /\ PointInBox(heap[result.start].id, result.point)) =>
     /\ result.node # NoNode
     /\ PointInBox(heap[result.node].id, result.point)
     /\ PointInBox(CanonicalChildBox(heap[result.node].id, result.octant), result.point)
     /\ heap[result.node].nodes[result.octant] = NoNode

\* a lookup that went below the absolute root
C4_Witness ==
  /\ result.op = "node_at_pos"
  /\ PointInBox(heap[result.start].id, result.point)
  /\ result.node # NoNode
  /\ result.node # result.start
  /\ result.octant # 0

\* C8: no node strictly below an entity's node wholly contains its AABB.
C8_DeepestCoveringNode ==
  \A e \in Entities :
     placed[e] # NoNode =>
       \A m \in Descendants(heap, placed[e]) : ~BoxContainsAabb(heap[m].id, get_aabb(e))

\* an entity is held above existing nodes while another is held below it
C8_Witness ==
  \E e \in Inserted, f \in Inserted :
     /\ placed[f] \in Descendants(heap, placed[e])
     /\ ~BoxContainsAabb(heap[placed[f]].id, get_aabb(e))

\* the box of the root that wraps `dim` toward the AABB
WrapBox(dim, aabb) ==
  [pos  |-> [k \in 1..3 |-> IF aabb.pos[k] < dim.pos[k] THEN dim.pos[k] - dim.size
                            ELSE dim.pos[k]],
   size |-> 2 * dim.size]

RECURSIVE FitsObtainableRoot(_, _, _, _)
\* the AABB is contained in the root `dim`, `level` levels above the tree, or
\* in a root obtained from it by wrapping up to max_out_depth levels
FitsObtainableRoot(dim, level, aabb, max_out_depth) ==
  \/ BoxContainsAabb(dim, aabb)
  \/ /\ level < max_out_depth
     /\ FitsObtainableRoot(WrapBox(dim, aabb), level + 1, aabb, max_out_depth)

\* C9: add_entity_to_octree raises TreeOutsideGrowError iff no obtainable root
\* contains the AABB; the error carries the absolute root and the entity is
\* in no entity set.
C9_OutsideGrowErrorIff ==
  result.op = "add" =>
    LET pre  == result.pre
        root == get_root(pre, TheTree)
    IN  /\ (result.error = "TreeOutsideGrowError") <=>
              ~FitsObtainableRoot(pre[root].id, get_level(pre, TheTree),
                                  get_aabb(result.e), config.max_out_depth)
        /\ result.error = "TreeOutsideGrowError" =>
              /\ result.abs_root = get_root(heap, TheTree)
              /\ \A k \in DOMAIN heap : result.e \notin heap[k].value.set

RECURSIVE Chain(_, _, _)
\* the nodes from n up to and including `top` (or the root above n)
Chain(h, n, top) ==
  IF n = top \/ h[n].parent = NoNode THEN {n} ELSE {n} \cup Chain(h, h[n].parent, top)

\* inside growth can go on from node m: the depth allows it and the child
\* sub-box selected by the AABB origin wholly contains the AABB
CanDescend(h, m, aabb) ==
  /\ get_level(h, m) - get_level(h, TheTree) < config.max_in_depth
  /\ BoxContainsAabb(CanonicalChildBox(h[m].id, OctantOf(h[m].id, aabb.pos)), aabb)

\* C10: the entity's node is reached from the fitting node through new
\* children in the slot selected by the AABB origin, descending exactly
\* while that sub-box contains the AABB and the depth is below max_in_depth.
C10_InsideGrowth ==
  (result.op = "add" /\ result.error = "none") =>
    LET aabb  == get_aabb(result.e)
        chain == Chain(heap, result.node, result.start)
    IN  /\ result.start \in chain
        /\ ~CanDescend(heap, result.node, aabb)
        /\ \A m \in chain \ {result.node} : CanDescend(heap, m, aabb)
        /\ \A m \in chain \ {result.start} :
              /\ m > Len(result.pre)
              /\ heap[heap[m].parent].nodes[OctantOf(heap[heap[m].parent].id, aabb.pos)] = m

\* the sphere equal to child 0 lives in a child and the straddling sphere at
\* the root
C10_Witness ==
  /\ placed[3] # NoNode
  /\ heap[placed[3]].id = [pos |-> get_aabb(3).pos, size |-> get_aabb(3).size]
  /\ heap[placed[3]].parent = TheTree
  /\ placed[4] = TheTree

(* ------------------------- the walker's claims -------------------------- *)

\* the stops of the current walk that have a position: visits to a child slot
HasPos(s) == s.tree # NoNode

SlotStops == SelectSeq(walk.stops, HasPos)

StopOctants == [i \in 1..Len(SlotStops) |-> SlotStops[i].octant]

StopSlots == [i \in 1..Len(SlotStops) |-> <<SlotStops[i].tree, SlotStops[i].octant>>]

Abs(x) == IF x < 0 THEN 0 - x ELSE x

Sgn(x) == IF x > 0 THEN 1 ELSE IF x < 0 THEN 0 - 1 ELSE 0

SetMax(S) == CHOOSE x \in S : \A y \in S : y <= x

SetMin(S) == CHOOSE x \in S : \A y \in S : x <= y

\* the ray parameter t is kept as the integer T = t * RayScale(d)
NonZero(x) == IF x = 0 THEN 1 ELSE Abs(x)

RayScale(d) == NonZero(d[1]) * NonZero(d[2]) * NonZero(d[3])

\* T at which the ray from p along d meets the plane x_i = a (d[i] # 0)
ParamAt(p, d, i, a) == (a - p[i]) * Sgn(d[i]) * (RayScale(d) \div Abs(d[i]))

MovingAxes(d) == {i \in 1..3 : d[i] # 0}

\* T at which the forward ray enters and leaves the slabs of a box
EnterT(box, p, d) ==
  SetMax({0} \cup { SetMin({ParamAt(p, d, i, box.pos[i]),
                            ParamAt(p, d, i, box.pos[i] + box.size)}) : i \in MovingAxes(d) })

ExitT(box, p, d) ==
  SetMin({ SetMax({ParamAt(p, d, i, box.pos[i]),
                   ParamAt(p, d, i, box.pos[i] + box.size)}) : i \in MovingAxes(d) })

\* the forward ray runs through the inside of the box over a stretch of positive length
RayPassesThrough(box, p, d) ==
  /\ \A i \in 1..3 : d[i] = 0 => (box.pos[i] < p[i] /\ p[i] < box.pos[i] + box.size)
  /\ ExitT(box, p, d) > EnterT(box, p, d)

\* the forward ray has at least a point in common with the closed box
RayTouches(box, p, d) ==
  /\ \A i \in 1..3 : d[i] = 0 => (box.pos[i] <= p[i] /\ p[i] <= box.pos[i] + box.size)
  /\ ExitT(box, p, d) >= EnterT(box, p, d)

\* the planes of a box along axis i: its two faces and its middle
FacePlanes(dim, i) == {dim.pos[i], dim.pos[i] + dim.size}

MidPlanes(dim, i) == {dim.pos[i] + dim.size \div 2}

\* the ray is past its start point on two planes at once, at a point of the closed box
MeetsBoth(dim, p, d, i, a, j, b) ==
  LET T == ParamAt(p, d, i, a)
  IN  /\ T > 0
      /\ T = ParamAt(p, d, j, b)
      /\ \A k \in 1..3 :
            /\ dim.pos[k] * RayScale(d) <= p[k] * RayScale(d) + d[k] * T
            /\ p[k] * RayScale(d) + d[k] * T <= (dim.pos[k] + dim.size) * RayScale(d)

\* the ray passes through an edge of the box (two faces), through the lines where two
\* middle planes meet (the centre among them), or runs within a face or middle plane
RayThroughEdgeOrCentre(dim, p, d) ==
  \/ \E i \in 1..3 : d[i] = 0 /\ p[i] \in FacePlanes(dim, i) \cup MidPlanes(dim, i)
  \/ \E i, j \in MovingAxes(d) :
        /\ i < j
        /\ \/ \E a \in FacePlanes(dim, i), b \in FacePlanes(dim, j) : MeetsBoth(dim, p, d, i, a, j, b)
           \/ \E a \in MidPlanes(dim, i), b \in MidPlanes(dim, j) : MeetsBoth(dim, p, d, i, a, j, b)

RayStart == walker.cursor.start_point.v

RayDir == walker.cursor.direction.v

OneLevelWalkEnded ==
  /\ Len(heap) = 1
  /\ walk.ended
  /\ walk.include_undefined


\* C5: on a root without subtrees, walked with empty slots included along a ray that
\* runs through the root box and avoids its edges and its centre, the octants yielded are the
\* octants the forward ray passes through, in the order it enters them: every octant
\* the ray runs through is yielded, every yielded octant is met by the ray, entry
\* parameters never decrease along the stops, and from (0,0,0) direction (5,3,2)
\* yields [0,1,3] and direction (2,1,4) yields [0,4,5].
C5_YieldedOctantsFollowRay ==
  (/\ OneLevelWalkEnded
   /\ RayPassesThrough(heap[TheTree].id, RayStart, RayDir)
   /\ ~RayThroughEdgeOrCentre(heap[TheTree].id, RayStart, RayDir)) =>
    LET dim == heap[TheTree].id
        box(k) == CanonicalChildBox(dim, k)
        S == StopOctants
    IN  /\ \A k \in 0..7 : RayPassesThrough(box(k), RayStart, RayDir)
                              => \E i \in 1..Len(S) : S[i] = k
        /\ \A i \in 1..Len(S) : RayTouches(box(S[i]), RayStart, RayDir)
        /\ \A i, j \in 1..Len(S) :
              i < j => EnterT(box(S[i]), RayStart, RayDir) <= EnterT(box(S[j]), RayStart, RayDir)
        /\ (RayStart = vector(0, 0, 0) /\ RayDir = vector(5, 3, 2)) => S = <<0, 1, 3>>
        /\ (RayStart = vector(0, 0, 0) /\ RayDir = vector(2, 1, 4)) => S = <<0, 4, 5>>


\* C6: within one walk no (tree, octant) slot is yielded twice and no node is
\* yielded twice.
C6_NoStopTwice ==
  \A i, j \in 1..Len(walk.stops) :
    i < j =>
      LET a == walk.stops[i]
          b == walk.stops[j]
      IN  /\ (a.tree # NoNode /\ b.tree # NoNode) => <<a.tree, a.octant>> # <<b.tree, b.octant>>
          /\ (a.node # NoNode /\ b.node # NoNode) => a.node # b.node

\* the tree of the two-level walker test: subtrees made in slots 0, 3 and 7 of the root
TwoLevelTestTree ==
  /\ Len(heap) = 4
  /\ heap[TheTree].nodes[0] = 2
  /\ heap[TheTree].nodes[3] = 3
  /\ heap[TheTree].nodes[7] = 4

\* C7: a walk ends only when the slots of the absolute root are exhausted, the
\* walker having stepped back from every subtree to its parent; on the root with
\* subtrees in slots 0, 3 and 7, from (0,0,0) along (1,1,1) with empty slots included,
\* the stops are subtree-0 [0,1,3,7], root [0,1,3], subtree-3 [4], root [7],
\* subtree-7 [0,1,3,7].
C7_StepBackToParent ==
  walk.ended =>
    /\ walker.cursor.tree = get_root(heap, TheTree)
    /\ walker.cursor.cross_logic.order = << >>
    /\ (/\ TwoLevelTestTree
        /\ walk.include_undefined
        /\ RayStart = vector(0, 0, 0)
        /\ RayDir = vector(1, 1, 1))
         => StopSlots = << <<2, 0>>, <<2, 1>>, <<2, 3>>, <<2, 7>>,
                           <<1, 0>>, <<1, 1>>, <<1, 3>>,
                           <<3, 4>>,
                           <<1, 7>>,
                           <<4, 0>>, <<4, 1>>, <<4, 3>>, <<4, 7>> >>

\* C11: a lookup without start_from_current gives, through any node of the tree,
\* the result it gives through the absolute root: the point is tested against the
\* root's box and the descent starts from the root with the root's box.
C11_LookupSameThroughAnyNode ==
  result.op = "node_at_pos" =>
     LET root == get_root(heap, result.start)
         r    == node_at_pos(heap, root, result.point, FALSE)
     IN  result.node = r.tree /\ result.octant = r.octant

(* ------------------------- claims on the tracer ------------------------- *)

\* the colour the ray has accumulated once its last collision has modulated it
Accumulated ==
  IF ray.hit.e = 0 THEN COLOR_WHITE ELSE mul_color(ray.hit.color, EntityTexture[ray.hit.e])

\* the last collision was a mirror reflection or a transmission, not on a light source
LastHitGoesOn ==
  /\ ray.hit.e # 0
  /\ ~ray.hit.material.light_source
  /\ \/ ray.hit.material.response = "REFLECTION" /\ ray.hit.material.mirror
     \/ ray.hit.material.response = "REFRACTION"

\* C12: after a mirror reflection or a transmission on a material that is no light
\* source, with refcount >= refmax the trace has stopped at that collision with the
\* colour BLACK, and no stop was pulled from the walker after it.
C12_BudgetExhaustedBlack ==
  (LastHitGoesOn /\ ray.refcount >= ray.refmax) =>
     /\ ray.phase = "done"
     /\ ray.exit = "black"
     /\ ray.color = COLOR_BLACK
     /\ ray.pulls = ray.hit.pull

\* the budget runs out on a transmission that follows an earlier collision
C12_Witness ==
  /\ ray.exit = "black"
  /\ ray.hit.material = GLASS_MATERIAL
  /\ ray.refcount = ray.refmax
  /\ ray.refcount >= 2

\* C13: a collision with a light source ends the trace at that collision with the
\* attenuated colour: no stop is pulled after it, the colour is the accumulated one
\* under the inverse square law, not BLACK by the budget and not times the sky.
C13_LightHitEndsTrace ==
  (ray.hit.e # 0 /\ ray.hit.material.light_source) =>
     /\ ray.phase = "done"
     /\ ray.exit = "light"
     /\ ray.light_hit
     /\ ray.pulls = ray.hit.pull
     /\ ray.color = attenuate(Accumulated, ray.path_distance)

\* a light source is hit beyond the budget, after a mirror, with a colour left
C13_Witness ==
  /\ ray.exit = "light"
  /\ ray.refcount > ray.refmax
  /\ ray.color # COLOR_BLACK
  /\ ray.path_distance > 0

\* C14: when the walker has no more stops and no light source was hit, the colour
\* is the accumulated colour times the sky in the ray's direction: WHITE times the
\* sky for a ray that hit nothing.
C14_SkyWhenWalkerExhausted ==
  /\ ray.exit = "sky" =>
        /\ ~ray.light_hit
        /\ ray.color = mul_color(Accumulated, sky_get_color(ray.dir))
  /\ (ray.phase = "done" /\ ray.hit.e = 0 /\ ray.exit # "raised") =>
        /\ ray.exit = "sky"
        /\ ray.color = mul_color(COLOR_WHITE, sky_get_color(ray.dir))

\* the walker runs out after a mirror has turned the ray, and for a ray of refmax 0
\* that hit nothing
C14_Witness ==
  /\ ray.exit = "sky"
  /\ \/ ray.hit.e # 0 /\ ray.dir # ray.hit.dir /\ ray.color # sky_get_color(ray.dir)
     \/ ray.hit.e = 0 /\ ray.refmax = 0 /\ ray.pulls > 1

\* C15: a collision with a material that reflects, is no mirror and no light source
\* ends the trace with the colour BLACK.
C15_AbsorbedIsBlack ==
  (/\ ray.hit.e # 0
   /\ ~ray.hit.material.light_source
   /\ ray.hit.material.response = "REFLECTION"
   /\ ~ray.hit.material.mirror) =>
     /\ ray.phase = "done"
     /\ ray.color = COLOR_BLACK

\* C16: a collision whose normal n has dir . n >= 0 ends the ray with the colour
\* BLACK and is no bounce: refcount is not incremented for it and the material does
\* not modulate the colour.
C16_DegenerateNormalIsBlack ==
  (ray.hit.e # 0 /\ ray.hit.dot >= 0) =>
     /\ ray.phase = "done"
     /\ ray.color = COLOR_BLACK
     /\ ray.refcount = ray.hit.refcount

\* C17: once trace_frame is called it completes: every ray's trace ends without
\* raising and one colour per pixel is on the screen.
C17_FrameCompletes ==
  tracer.started ~> (tracer.flushed /\ Len(tracer.screen) = MaxPixels)

(* ---------------------- claims on the reused walker --------------------- *)

\* a walker constructed for the ray the walker is set up for
FreshWalker ==
  set_start_point(heap, set_direction(new_walker(TheTree), walker.cursor.direction.v),
                  walker.cursor.start_point.v)

\* n calls of next() on the walker w: the walker they leave and the stops they gave
RECURSIVE walk_from(_, _, _, _)
walk_from(h, w, n, include_undefined) ==
  IF n = 0 THEN [w |-> w, stops |-> << >>]
  ELSE LET r  == walk_from(h, w, n - 1, include_undefined)
           nx == next(h, r.w, include_undefined)
       IN  [w |-> nx.w,
            stops |-> IF nx.out.null THEN r.stops ELSE Append(r.stops, nx.out)]

\* the calls of next() made in the current walk
NextCalls == Len(walk.stops) + (IF walk.ended THEN 1 ELSE 0)

\* the stops of the current walk are those a new walker gives for the same tree,
\* start point and direction, and the walker is in the state of that new walker
StopsOfFreshWalker ==
  (walker.cursor.start_point.defined /\ walker.cursor.direction.defined) =>
     LET f == walk_from(heap, FreshWalker, NextCalls, walk.include_undefined)
     IN  walker = f.w /\ walk.stops = f.stops

\* the box of a stop: the octant of its tree, or the box of a root
StopBox(h, s) ==
  IF s.tree = NoNode THEN h[s.node].id ELSE subdim(h[s.tree].id, s.octant)

\* p is in the box or on its boundary
TouchesBox(dim, p) == \A i \in 1..3 : dim.pos[i] <= p[i] /\ p[i] <= dim.pos[i] + dim.size

\* the first stop of the current walk contains the start point or is adjacent to it
FirstStopAtStart ==
  walk.stops # << >> => TouchesBox(StopBox(heap, walk.stops[1]), walker.cursor.start_point.v)

\* C18: once start point and direction are set, the stops depend on the tree, the
\* start point and the direction only, not on what the walker did before; and the
\* first stop contains the start point or is adjacent to it.
C18_StopsIndependentOfHistory ==
  /\ StopsOfFreshWalker
  /\ FirstStopAtStart

(* --------------------- claims on invalidated subtrees ------------------- *)

\* the stop is an invalidated subtree, or a slot of one
InvalidatedStop(h, s) ==
  \/ s.node # NoNode /\ h[s.node].invalidated
  \/ s.tree # NoNode /\ h[s.tree].invalidated

\* C19: no stop that next() returns is an invalidated subtree or a slot of an
\* invalidated subtree: the walker goes on with the slots of the parent instead.
C19_NoInvalidatedStop ==
  [][Len(walk'.stops) > Len(walk.stops) =>
        ~InvalidatedStop(heap', walk'.stops[Len(walk'.stops)])]_vars

(* ---------------------- claims on prepare_to_walk ----------------------- *)

\* the walker has no start point, no direction, or the zero vector as direction
NotReadyToWalk ==
  \/ ~walker.cursor.start_point.defined
  \/ ~walker.cursor.direction.defined
  \/ walker.cursor.direction.v = vector(0, 0, 0)

\* C20: while the start point is unset, the direction is unset or the direction is
\* the zero vector, next() raises an error: it gives no stop and does not end the
\* walk with null.
C20_NextRaisesWhenNotReady ==
  NotReadyToWalk => (walk.stops = << >> /\ ~walk.ended)

(* ----------------------- claims on where a walk goes -------------------- *)

\* the walker is set up at a point outside the box of the absolute root, for a ray
\* whose forward half has no point in common with that box
RayMissesTree ==
  LET dim == heap[get_root(heap, TheTree)].id
  IN  /\ walker.cursor.start_point.defined
      /\ walker.cursor.direction.defined
      /\ ~PointInBox(dim, RayStart)
      /\ ~RayTouches(dim, RayStart, RayDir)

\* C21: a walk that starts outside the box of the tree, along a ray whose forward
\* half does not meet the root box, yields no stops.
C21_NoStopsWhenRayMisses ==
  RayMissesTree => walk.stops = << >>

\* C22: the root alone, walked with empty slots included from (0,0,0) along
\* (1,1,1), yields the octants 0, 1, 3, 7 in that order.
C22_DiagonalOctants ==
  (/\ OneLevelWalkEnded
   /\ heap[TheTree].id.pos = vector(0, 0, 0)
   /\ RayStart = vector(0, 0, 0)
   /\ RayDir = vector(1, 1, 1)) => StopOctants = <<0, 1, 3, 7>>

(* ------------------------ claims on the tree's frame -------------------- *)

\* the lookup of p from the absolute root of the held tree, in the heap h
LookupFromRoot(h, p) == node_at_pos(h, get_root(h, TheTree), p, FALSE)

\* C23: new_subtree on an empty slot whose box does not contain p leaves
\* node_at_pos(root, p) as it was.
C23_LookupStableUnderNewSubtree ==
  result.op = "new_subtree" =>
     \A p \in QueryPoints :
        ~PointInBox(heap[result.node].id, p)
           => LookupFromRoot(heap, p) = LookupFromRoot(result.pre, p)

\* a subtree was made beside a point whose lookup goes below the root
C23_Witness ==
  /\ result.op = "new_subtree"
  /\ \E p \in QueryPoints :
        /\ ~PointInBox(heap[result.node].id, p)
        /\ LookupFromRoot(heap, p) # NullPos
        /\ LookupFromRoot(heap, p).tree # get_root(heap, TheTree)

\* C24: set(i, v) on a slot that held a subtree s other than v has returned s, and s
\* is invalid afterwards, unless keep_old_valid was passed: then s is as valid as it
\* was before.
C24_SetInvalidatesOld ==
  LET s == result.pre[result.start].nodes[result.octant]
  IN  (result.op = "set" /\ s # NoNode /\ s # result.value) =>
         /\ result.node = s
         /\ heap[result.start].nodes[result.octant] = result.value
         /\ IF result.keep_old_valid
            THEN heap[s].invalidated = result.pre[s].invalidated
            ELSE heap[s].invalidated

\* a subtree with children was replaced with keep_old_valid, after another had been
\* invalidated without it
C24_Witness ==
  LET s == result.pre[result.start].nodes[result.octant]
  IN  /\ result.op = "set"
      /\ s # NoNode
      /\ s # result.value
      /\ result.keep_old_valid
      /\ ~heap[s].invalidated
      /\ Children(heap, s) # {}
      /\ \E k \in DOMAIN heap : heap[k].invalidated

(* ------------------------------ claims on Box.line_intersection ------------------------------ *)

\* C25: when Box.line_intersection returns two hits, the first is the entry hit and
\* the second the exit hit: the first hit's parameter is at most the second's.
C25_EntryBeforeExit ==
  (result.op = "line_intersection" /\ Len(result.hits) = 2) =>
     ~Greater(result.hits[1].parameter, result.hits[2].parameter)

(* ------------------------------ claims on what insertions keep ------------------------------ *)

\* the nodes reachable from the absolute root through child slots
Live(h) == LET abs_root == get_root(h, TheTree) IN {abs_root} \cup Descendants(h, abs_root)

\* C26: insertions never replace or invalidate a subtree: every node ever created is
\* reachable from the absolute root through child slots and not invalidated, and
\* every entity inserted is in the entity set of such a node.
C26_InsertionsKeepSubtrees ==
  /\ \A k \in DOMAIN heap : k \in Live(heap) /\ ~heap[k].invalidated
  /\ \A e \in Inserted : \E k \in Live(heap) : e \in heap[k].value.set

(* ------------------------------ claims on the nodes a walk yields ------------------------------ *)

\* the node the walk starts in: the deepest node containing the start point
StartNode == LookupFromRoot(heap, RayStart).tree

\* the stops of the current walk that yield node n
StopsYielding(n) == {i \in 1..Len(walk.stops) : walk.stops[i].node = n}

\* C27: in a walk that starts inside the tree, every node on the parent chain from
\* the node containing the start point up to the absolute root is yielded as a stop
\* exactly once.
C27_AncestorsYieldedOnce ==
  (walk.ended /\ walker.cursor.start_point.defined /\ StartNode # NoNode) =>
     \A n \in Chain(heap, StartNode, get_root(heap, TheTree)) :
        Cardinality(StopsYielding(n)) = 1

(* ------------------------------ claims on the hits of a stop ------------------------------ *)

\* C28: within one stop a collision at the ray's refpoint (the surface the ray has
\* just left) is never processed as the stop's hit: a round of the loop of trace()
\* that processes a hit (and so counts a reflection) moves the refpoint.
C28_RefpointCollisionSkipped ==
  [][ (ray.phase = "tracing" /\ ray'.pulls = ray.pulls + 1 /\ ray'.refpoint = ray.refpoint)
        => ray'.refcount = ray.refcount ]_vars

(* ------------------------------ claims on index_within_parent ------------------------------ *)

\* C29: for every node n held in a slot of the tree, index_within_parent(n) is the
\* slot i for which n.parent.get(i) is n.
C29_IndexWithinParentIsSlot ==
  \A p \in DOMAIN heap : \A i \in 0..7 :
     heap[p].nodes[i] # NoNode =>
       LET n == heap[p].nodes[i]
           j == index_within_parent(heap, n)
       IN  j # Undef /\ heap[heap[n].parent].nodes[j] = n

(* ------------------------------ claims on the camera's pixels ------------------------------ *)

\* C30: for any screen width and height get_dir_for_each_pixel yields no pixel
\* outside 0 <= x < screen_w, 0 <= y < screen_h, yields no pixel twice, and has
\* yielded every pixel of that range once it is exhausted.
C30_EachPixelOnce ==
  LET px == result.pixels
  IN  /\ \A k \in 1..Len(px) :
            /\ 0 <= px[k].x /\ px[k].x < result.screen_w
            /\ 0 <= px[k].y /\ px[k].y < result.screen_h
      /\ \A k, m \in 1..Len(px) : k # m => px[k] # px[m]
      /\ result.op = "camera_done" =>
            \A x \in 0..(result.screen_w - 1), y \in 0..(result.screen_h - 1) :
               \E k \in 1..Len(px) : px[k] = [x |-> x, y |-> y]

====
